---- MODULE Spec2Model ----
(***************************************************************************)
(* Ledger storage of the Vouchy bot (bot.py): the File backend             *)
(* (JsonStorage), the Relational backend (PostgresStorage), the legacy     *)
(* import of on_ready, and the calls the command layer makes on them.      *)
(***************************************************************************)
EXTENDS Integers, Sequences, FiniteSets, TLC

\* ------------------------------------------------------------------ bounds
MaxPoints == 1
MaxVouches == 1
MaxFold == 2
MaxWriteFaults == 1
MaxLimit == 2
MaxImages == 2
MaxScore == 2

\* configuration
POINTS_PER_PICTURE == 1

Users == {1, 2}
Keys == {"1", "2", "x"}
PointDeltas == {0 - 1000000, 0 - 1, 1}
VouchDeltas == {0 - 1, 1}

\* ------------------------------------------------------- python primitives
\* str(user_id)
Str(u) == IF u = 1 THEN "1" ELSE "2"

\* int(k) succeeds on a decimal string and raises ValueError otherwise
IntParses(k) == k \in {"1", "2"}
IntOf(k) == IF k = "1" THEN 1 ELSE 2

Empty == [k \in {} |-> 0]

\* d[k] = e on a dict / insert-or-replace of one row
Put(d, k, e) == [y \in (DOMAIN d) \cup {k} |-> IF y = k THEN e ELSE d[y]]

Entry(p, v) == [points |-> p, total_vouches |-> v]

\* if new_total < 0: new_total = 0    /   greatest(0, ...)
Clamp(n) == IF n < 0 THEN 0 ELSE n

\* --------------------------------------------------------- JSON documents
\* A value of a JSON object member: a bare integer, an object whose members
\* are integers or values int() rejects, or anything else (string, list...).
JNum(n) == [ok |-> TRUE, n |-> n]
JBad == [ok |-> FALSE, n |-> 0]
JInt(n) == [t |-> "int", n |-> n, o |-> Empty]
JObj(o) == [t |-> "obj", n |-> 0, o |-> o]
JOther == [t |-> "other", n |-> 0, o |-> Empty]

\* The file vouches.json: absent, not parseable, parseable but not an
\* object, or an object.
FileMissing == [kind |-> "missing", obj |-> Empty]
FileCorrupt == [kind |-> "corrupt", obj |-> Empty]
FileNonObject == [kind |-> "nonobject", obj |-> Empty]
FileObject(o) == [kind |-> "object", obj |-> o]

\* v.get("points", v.get("score", 0))
PointsFieldNoScore(o) == IF "points" \in DOMAIN o THEN o["points"] ELSE JNum(0)
PointsField(o) ==
    IF "points" \in DOMAIN o THEN o["points"]
    ELSE IF "score" \in DOMAIN o THEN o["score"]
    ELSE JNum(0)

\* v.get("total_vouches", 0)
VouchesField(o) == IF "total_vouches" \in DOMAIN o THEN o["total_vouches"] ELSE JNum(0)

\* int(...) of either field raises
EntryRaises(v) == v.t = "obj" /\ (~PointsField(v.o).ok \/ ~VouchesField(v.o).ok)

\* the entry a member value is normalised to (int or dict branch)
Normalize(v) ==
    IF v.t = "int" THEN Entry(v.n, 0)
    ELSE Entry(PointsField(v.o).n, VouchesField(v.o).n)

\* json.dumps(self._data): every entry is written as an object with both fields
JsonDumpsPointsOnly(d) == FileObject([k \in DOMAIN d |-> JInt(d[k].points)])
JsonDumps(d) ==
    FileObject([k \in DOMAIN d |->
        JObj([f \in {"points", "total_vouches"} |-> JNum(d[k][f])])])

\* ------------------------------------------------------------ JsonStorage
\* the value self._data has after init() read file f
JsonInitData(f) ==
    IF f.kind # "object" THEN Empty
    ELSE IF \E k \in DOMAIN f.obj : EntryRaises(f.obj[k]) THEN Empty
    ELSE [k \in {j \in DOMAIN f.obj : f.obj[j].t \in {"int", "obj"}} |->
            Normalize(f.obj[k])]

\* an exception leaves init(): `except Exception` catches whatever reading,
\* parsing or converting the file raises
JsonInitUncaught(f) == f.kind = "corrupt"
JsonInitRaises(f) == FALSE

\* self._data.get(uid) or {"points": 0, "total_vouches": 0}
JsonEntryOrDefault(d, k) == IF k \in DOMAIN d THEN d[k] ELSE Entry(0, 0)

\* entry = self._data.get(str(user_id)); if not entry: return 0
JsonGetPointsNoDefault(d, u) == IF Str(u) \in DOMAIN d THEN d[Str(u)].points ELSE 0 - 1
JsonGetPoints(d, u) == IF Str(u) \in DOMAIN d THEN d[Str(u)].points ELSE 0

JsonGetStats(d, u) ==
    IF Str(u) \in DOMAIN d
    THEN <<d[Str(u)].points, d[Str(u)].total_vouches>>
    ELSE <<0, 0>>

\* the entry add_points computes from the current one
JsonAddPointsDebitsVouch(e, delta) ==
    [points |-> Clamp(e.points + delta),
     total_vouches |-> IF delta < 0 THEN Clamp(e.total_vouches - 1) ELSE e.total_vouches]
JsonAddPointsEntry(e, delta) == [e EXCEPT !.points = Clamp(e.points + delta)]

\* the entry add_vouch computes from the current one
JsonAddVouchPointsOnly(e, dp, dv) == [e EXCEPT !.points = Clamp(e.points + dp)]
JsonAddVouchEntry(e, dp, dv) ==
    [points |-> Clamp(e.points + dp), total_vouches |-> Clamp(e.total_vouches + dv)]

\* -------------------------------------------------------- PostgresStorage
PgGetPoints(t, u) == IF u \in DOMAIN t THEN t[u].points ELSE 0

PgGetStats(t, u) ==
    IF u \in DOMAIN t THEN <<t[u].points, t[u].total_vouches>> ELSE <<0, 0>>

\* insert (user_id, 0) on conflict do update set points = greatest(0, points + $2)
PgAddPointsDeletesAtZero(t, u, delta) ==
    IF u \in DOMAIN t /\ Clamp(t[u].points + delta) = 0
    THEN [y \in (DOMAIN t) \ {u} |-> t[y]]
    ELSE IF u \in DOMAIN t
         THEN [t EXCEPT ![u].points = Clamp(t[u].points + delta)]
         ELSE Put(t, u, Entry(0, 0))
PgAddPointsTable(t, u, delta) ==
    IF u \in DOMAIN t
    THEN [t EXCEPT ![u].points = Clamp(t[u].points + delta)]
    ELSE Put(t, u, Entry(0, 0))

\* insert (user_id, 0, 0) on conflict do update set both counters
PgAddVouchTable(t, u, dp, dv) ==
    IF u \in DOMAIN t
    THEN [t EXCEPT ![u] = Entry(Clamp(t[u].points + dp), Clamp(t[u].total_vouches + dv))]
    ELSE Put(t, u, Entry(0, 0))

\* select count(*) from vouches
PgCountRows(t) == Cardinality(DOMAIN t)

\* insert values($1, $2, $3) on conflict (user_id) do update set
\* points = excluded.points, total_vouches = excluded.total_vouches
PgUpsertRowAdds(t, row) ==
    Put(t, row[1], Entry(PgGetStats(t, row[1])[1] + row[2], PgGetStats(t, row[1])[2] + row[3]))
PgUpsertRowKeeps(t, row) ==
    IF row[1] \in DOMAIN t THEN t ELSE Put(t, row[1], Entry(row[2], row[3]))
PgUpsertRow(t, row) == Put(t, row[1], Entry(row[2], row[3]))

\* the statements of bulk_upsert's transaction, in list order
RECURSIVE PgBulkUpsertTable(_, _)
PgBulkUpsertTable(t, rows) ==
    IF rows = <<>> THEN t
    ELSE PgBulkUpsertTable(PgUpsertRow(t, Head(rows)), Tail(rows))

\* ---------------------------------------------- _load_legacy_json_for_import
\* keys of the object int() accepts and whose value is an int or a dict
LegacyKeys(f) == {k \in DOMAIN f.obj : IntParses(k) /\ f.obj[k].t \in {"int", "obj"}}

RECURSIVE LegacyRowsOf(_, _)
LegacyRowsOf(f, ks) ==
    IF ks = {} THEN <<>>
    ELSE LET k == CHOOSE j \in ks : \A i \in ks : IntOf(j) <= IntOf(i)
         IN <<<<IntOf(k), Normalize(f.obj[k]).points, Normalize(f.obj[k]).total_vouches>>>>
            \o LegacyRowsOf(f, ks \ {k})

\* the list the loader returns; any exception inside the loop returns []
LoadLegacy(f) ==
    IF f.kind # "object" THEN <<>>
    ELSE IF \E k \in DOMAIN f.obj : IntParses(k) /\ EntryRaises(f.obj[k]) THEN <<>>
    ELSE LegacyRowsOf(f, LegacyKeys(f))

\* ----------------------------------------------------------------- top
\* the orders in which the items of a dict, or the rows of a table, come out
Orders(S) ==
    {s \in [1..Cardinality(S) -> S] : \A i, j \in 1..Cardinality(S) : s[i] = s[j] => i = j}

\* one step of sorted(..., key=points, reverse=True): k goes behind every
\* item that has at least as many points (the sort is stable)
RECURSIVE InsertDesc(_, _, _)
InsertDesc(f, sorted, k) ==
    IF sorted = <<>> THEN <<k>>
    ELSE IF f[Head(sorted)].points >= f[k].points
         THEN <<Head(sorted)>> \o InsertDesc(f, Tail(sorted), k)
         ELSE <<k>> \o sorted

RECURSIVE SortDesc(_, _)
SortDesc(f, items) ==
    IF items = <<>> THEN <<>>
    ELSE InsertDesc(f, SortDesc(f, SubSeq(items, 1, Len(items) - 1)), items[Len(items)])

\* items[:limit] for limit >= 0
TakeAll(items, limit) == items
Take(items, limit) == SubSeq(items, 1, IF limit < Len(items) THEN limit ELSE Len(items))

\* the keys JsonStorage.top keeps, given the order the dict iterates in
JsonTopKeys(d, order, limit) == Take(SortDesc(d, order), limit)

\* int(uid) raises for one of the kept keys
JsonTopRaises(keys) == \E i \in 1..Len(keys) : ~IntParses(keys[i])

\* [(int(uid), points) for uid, obj in items]
JsonTopResult(d, keys) == [i \in 1..Len(keys) |-> <<IntOf(keys[i]), d[keys[i]].points>>]

\* select user_id, points from vouches order by points desc limit $1, given
\* the order the rows are scanned in
PgTopResult(t, order, limit) ==
    LET ids == Take(SortDesc(t, order), limit)
    IN [i \in 1..Len(ids) |-> <<ids[i], t[ids[i]].points>>]

\* ---------------------------------------------------------------- messages
\* The prefix command a message carries, as process_commands sees it: its
\* name, the member and the amount it names, and whether the author passes
\* the command's has_permissions check.
NoCommand == [name |-> "none", member |-> 1, amount |-> 0, permitted |-> TRUE]

Commands ==
    { NoCommand,
      [name |-> "vouches", member |-> 1, amount |-> 0, permitted |-> TRUE],
      [name |-> "addvouch", member |-> 1, amount |-> 1, permitted |-> TRUE],
      [name |-> "addvouch", member |-> 1, amount |-> 0, permitted |-> TRUE],
      [name |-> "addvouch", member |-> 1, amount |-> 1, permitted |-> FALSE],
      [name |-> "removevouch", member |-> 1, amount |-> 1, permitted |-> TRUE],
      [name |-> "importvouches", member |-> 1, amount |-> 0, permitted |-> TRUE] }

\* A message: author.bot, channel.id == VOUCH_CHANNEL_ID, the number of
\* attachments the image filter keeps, and whom it mentions: nobody (or it
\* has no guild), only members without the Provider role (or the guild has
\* no such role), or at least one member holding it.
AllMessages ==
    [bot : BOOLEAN, inChannel : BOOLEAN, images : 0..MaxImages,
     mentions : {"none", "member", "provider"}, author : Users, cmd : Commands]

\* The messages dispatched: every message without a command; with a command,
\* the messages that have one image and mention a Provider, from a bot or
\* not, in the vouch channel or not.
Messages ==
    {m \in AllMessages :
        m.cmd = NoCommand \/ (m.images = 1 /\ m.mentions = "provider")}

\* no message event is waiting for its handler
NoMessage ==
    [pending |-> FALSE,
     m |-> [bot |-> TRUE, inChannel |-> FALSE, images |-> 0, mentions |-> "none",
            author |-> 1, cmd |-> NoCommand]]

\* ------------------------------------------------------------------- state
VARIABLES
    storage,     \* which class the module-level `storage` is an instance of
    data,        \* JsonStorage._data
    file,        \* the content of vouches.json (DATA_PATH)
    pool,        \* PostgresStorage.pool: "None" or "open"
    schema,      \* the table vouches exists in the database
    table,       \* the rows of the table vouches
    rpc,         \* position of the running on_ready handler
    initFailed,  \* the latest storage.init() raised
    imports,     \* number of startup imports that committed
    faults,      \* number of snapshot writes the environment made fail so far
    last,        \* the latest call: operation and outcome
    fold,        \* per user, the floor-at-zero fold of the deltas applied
    run,         \* per user, the current run of AddPoints(u, +1) calls
    retJ,        \* value the JsonStorage instance returned to the latest call
    retP,        \* value the PostgresStorage instance returned to the latest call
    board,       \* the list the latest call returned, if it was top(limit)
    marked,      \* the message on_message handled last carries the bot's check mark
    msg          \* the message event dispatched to on_message and not handled yet

vars == <<storage, data, file, pool, schema, table, rpc, initFailed, imports,
          faults, last, fold, run, retJ, retP, board,
          marked, msg>>

harness == <<fold, run, msg>>

Call(op, res) == [op |-> op, result |-> res]

\* the files the process may find at DATA_PATH when it starts
InitFiles ==
    { FileMissing,
      FileCorrupt,
      FileObject(Put(Put(Empty, "1", JObj([points |-> JNum(1), total_vouches |-> JNum(1)])),
                     "2", JObj([score |-> JNum(1)]))),
      FileObject(Put(Put(Empty, "x", JInt(1)), "2", JInt(0 - 1))),
      FileObject(Put(Put(Empty, "1", JObj([points |-> JBad])), "2", JOther)) }

\* the files the import finds next to a process configured with DATABASE_URL
LegacyFiles ==
    { FileMissing,
      FileObject(Put(Put(Empty, "1", JObj([points |-> JNum(1), total_vouches |-> JNum(1)])),
                     "2", JObj([score |-> JNum(1)]))) }

\* the batches a caller hands to bulk_upsert
BulkInputs ==
    { <<>>,
      <<<<1, 1, 1>>, <<2, 1, 0>>>>,
      <<<<2, 0 - 1, 0>>>> }

Init ==
    /\ \/ storage = "json" /\ file \in InitFiles
       \/ storage = "postgres" /\ file \in LegacyFiles
    /\ data = Empty
    /\ pool = "None"
    /\ schema = FALSE
    /\ table = Empty
    /\ rpc = "idle"
    /\ initFailed = FALSE
    /\ imports = 0
    /\ faults = 0
    /\ last = Call("start", "ok")
    /\ fold = [u \in Users |-> <<0, 0>>]
    /\ run = [u \in Users |-> [n |-> 0, baseJ |-> 0, baseP |-> 0]]
    /\ retJ = <<0, 0>>
    /\ retP = <<0, 0>>
    /\ board = <<>>
    /\ marked = FALSE
    /\ msg = NoMessage

\* what GetStats of the active backend reads for user u
Stats(st, d, t, u) == IF st = "json" THEN JsonGetStats(d, u) ELSE PgGetStats(t, u)

\* `assert self.pool is not None` passes and the statement can run
PgUsable == pool = "open" /\ schema

\* outcomes of one statement / transaction sent to the database
DbOutcomes == {"ok", "error"}

\* outcomes of Path.write_text: written, open() refused, failed after truncation
WriteOutcomes == {"ok", "open_fail", "write_fail"}

\* outcomes of PostgresStorage.init: create_pool raises, the first or the
\* second execute raises, or all three succeed
InitOutcomes == {"pool_fail", "create_fail", "alter_fail", "ok"}

\* the environment makes at most MaxWriteFaults snapshot writes fail
WriteFault(w) ==
    /\ w # "ok" => faults < MaxWriteFaults
    /\ faults' = IF w = "ok" THEN faults ELSE faults + 1

FileAfterWrite(w, d, f) ==
    IF w = "ok" THEN JsonDumps(d)
    ELSE IF w = "open_fail" THEN f
    ELSE FileCorrupt

\* the value the active backend hands back to the caller of the latest call
Returned(v) ==
    /\ retJ' = IF storage = "json" THEN v ELSE retJ
    /\ retP' = IF storage = "postgres" THEN v ELSE retP
    /\ board' = <<>>
    /\ marked' = FALSE

\* a call that raised, or that returns None
NoValue == <<0, 0>>

\* ---------------------------------------------------------------- on_ready
\* await storage.init(), exceptions caught and printed.  JsonStorage.init
\* never suspends, so with the File backend the handler goes through the
\* isinstance test without another handler running in between.
OnReadyInit ==
    /\ rpc = "idle"
    /\ \/ /\ storage = "json"
          /\ rpc' = "idle"
          /\ IF JsonInitRaises(file)
             THEN /\ initFailed' = TRUE
                  /\ last' = Call("init", "fail")
                  /\ UNCHANGED data
             ELSE /\ data' = JsonInitData(file)
                  /\ initFailed' = FALSE
                  /\ last' = Call("init", "ok")
          /\ UNCHANGED <<pool, schema>>
       \/ /\ storage = "postgres"
          /\ rpc' = "inited"
          /\ \E o \in InitOutcomes :
                /\ pool' = IF o = "pool_fail" THEN pool ELSE "open"
                /\ schema' = IF o \in {"alter_fail", "ok"} THEN TRUE ELSE schema
                /\ initFailed' = (o # "ok")
                /\ last' = Call("init", IF o = "ok" THEN "ok" ELSE "fail")
          /\ UNCHANGED data
    /\ Returned(NoValue)
    /\ UNCHANGED <<storage, file, table, imports, faults, harness>>

\* isinstance(storage, PostgresStorage) and row_count = await storage.count_rows()
OnReadyCount ==
    /\ rpc = "inited"
    /\ storage = "postgres"
    /\ \E o \in DbOutcomes :
          IF PgUsable /\ o = "ok"
          THEN /\ rpc' = IF PgCountRows(table) = 0 THEN "counted" ELSE "idle"
               /\ last' = Call("ready_count", "ok")
               /\ Returned(<<PgCountRows(table), 0>>)
          ELSE /\ rpc' = "idle"
               /\ last' = Call("ready_count", "fail")
               /\ Returned(NoValue)
    /\ UNCHANGED <<storage, data, file, pool, schema, table, initFailed, imports, faults, harness>>

\* legacy_rows = _load_legacy_json_for_import(); await storage.bulk_upsert(legacy_rows)
OnReadyImport ==
    /\ rpc = "counted"
    /\ rpc' = "idle"
    /\ LET rows == LoadLegacy(file) IN
         IF rows = <<>>
         THEN /\ last' = Call("ready_import", "none")
              /\ UNCHANGED <<table, imports>>
         ELSE \E o \in DbOutcomes :
                IF PgUsable /\ o = "ok"
                THEN /\ table' = PgBulkUpsertTable(table, rows)
                     /\ imports' = imports + 1
                     /\ last' = Call("ready_import", "ok")
                ELSE /\ last' = Call("ready_import", "fail")
                     /\ UNCHANGED <<table, imports>>
    /\ Returned(NoValue)
    /\ UNCHANGED <<storage, data, file, pool, schema, initFailed, faults, harness>>

\* ------------------------------------------------- calls of the command layer
\* storage.get_points(user_id)
GetPoints(u) ==
    /\ \/ /\ storage = "json"
          /\ last' = Call("get_points", "ok")
          /\ Returned(<<JsonGetPoints(data, u), 0>>)
       \/ /\ storage = "postgres"
          /\ \E o \in DbOutcomes :
                IF PgUsable /\ o = "ok"
                THEN /\ last' = Call("get_points", "ok")
                     /\ Returned(<<PgGetPoints(table, u), 0>>)
                ELSE /\ last' = Call("get_points", "fail")
                     /\ Returned(NoValue)
    /\ UNCHANGED <<storage, data, file, pool, schema, table, rpc, initFailed, imports,
                   faults, harness>>

\* storage.get_stats(user_id)
GetStats(u) ==
    /\ \/ /\ storage = "json"
          /\ last' = Call("get_stats", "ok")
          /\ Returned(JsonGetStats(data, u))
       \/ /\ storage = "postgres"
          /\ \E o \in DbOutcomes :
                IF PgUsable /\ o = "ok"
                THEN /\ last' = Call("get_stats", "ok")
                     /\ Returned(PgGetStats(table, u))
                ELSE /\ last' = Call("get_stats", "fail")
                     /\ Returned(NoValue)
    /\ UNCHANGED <<storage, data, file, pool, schema, table, rpc, initFailed, imports,
                   faults, harness>>

\* storage.add_points(user_id, delta)
AddPoints(u, delta) ==
    /\ \/ /\ storage = "json"
          /\ LET e == JsonAddPointsEntry(JsonEntryOrDefault(data, Str(u)), delta) IN
               /\ e.points <= MaxPoints
               /\ data' = Put(data, Str(u), e)
               /\ \E w \in WriteOutcomes :
                     /\ WriteFault(w)
                     /\ file' = FileAfterWrite(w, data', file)
                     /\ IF w = "ok"
                        THEN last' = Call("add_points", "ok") /\ Returned(<<e.points, 0>>)
                        ELSE last' = Call("add_points", "fail") /\ Returned(NoValue)
          /\ UNCHANGED table
       \/ /\ storage = "postgres"
          /\ PgGetPoints(PgAddPointsTable(table, u, delta), u) <= MaxPoints
          /\ \E o \in DbOutcomes :
                IF PgUsable /\ o = "ok"
                THEN /\ table' = PgAddPointsTable(table, u, delta)
                     /\ last' = Call("add_points", "ok")
                     /\ Returned(<<PgGetPoints(table', u), 0>>)
                ELSE /\ table' = table
                     /\ last' = Call("add_points", "fail")
                     /\ Returned(NoValue)
          /\ UNCHANGED <<data, file, faults>>
    /\ UNCHANGED <<storage, pool, schema, rpc, initFailed, imports, harness>>

\* storage.add_vouch(user_id, points_delta, vouches_delta)
AddVouch(u, dp, dv) ==
    /\ \/ /\ storage = "json"
          /\ LET e == JsonAddVouchEntry(JsonEntryOrDefault(data, Str(u)), dp, dv) IN
               /\ e.points <= MaxPoints
               /\ e.total_vouches <= MaxVouches
               /\ data' = Put(data, Str(u), e)
               /\ \E w \in WriteOutcomes :
                     /\ WriteFault(w)
                     /\ file' = FileAfterWrite(w, data', file)
                     /\ IF w = "ok"
                        THEN last' = Call("add_vouch", "ok")
                             /\ Returned(<<e.points, e.total_vouches>>)
                        ELSE last' = Call("add_vouch", "fail") /\ Returned(NoValue)
          /\ UNCHANGED table
       \/ /\ storage = "postgres"
          /\ PgGetStats(PgAddVouchTable(table, u, dp, dv), u)[1] <= MaxPoints
          /\ PgGetStats(PgAddVouchTable(table, u, dp, dv), u)[2] <= MaxVouches
          /\ \E o \in DbOutcomes :
                IF PgUsable /\ o = "ok"
                THEN /\ table' = PgAddVouchTable(table, u, dp, dv)
                     /\ last' = Call("add_vouch", "ok")
                     /\ Returned(PgGetStats(table', u))
                ELSE /\ table' = table
                     /\ last' = Call("add_vouch", "fail")
                     /\ Returned(NoValue)
          /\ UNCHANGED <<data, file, faults>>
    /\ UNCHANGED <<storage, pool, schema, rpc, initFailed, imports, harness>>

\* storage.count_rows(), a method of PostgresStorage only
CountRows ==
    /\ storage = "postgres"
    /\ \E o \in DbOutcomes :
          IF PgUsable /\ o = "ok"
          THEN /\ last' = Call("count_rows", "ok")
               /\ Returned(<<PgCountRows(table), 0>>)
          ELSE /\ last' = Call("count_rows", "fail")
               /\ Returned(NoValue)
    /\ UNCHANGED <<storage, data, file, pool, schema, table, rpc, initFailed, imports,
                   faults, harness>>

\* storage.bulk_upsert(rows), a method of PostgresStorage only
BulkUpsert(rows) ==
    /\ storage = "postgres"
    /\ IF rows = <<>>
       THEN /\ last' = Call("bulk_upsert", "ok")
            /\ UNCHANGED table
       ELSE \E o \in DbOutcomes :
              IF PgUsable /\ o = "ok"
              THEN /\ table' = PgBulkUpsertTable(table, rows)
                   /\ last' = Call("bulk_upsert", "ok")
              ELSE /\ table' = table
                   /\ last' = Call("bulk_upsert", "fail")
    /\ Returned(NoValue)
    /\ UNCHANGED <<storage, data, file, pool, schema, rpc, initFailed, imports,
                   faults, harness>>

\* storage.top(limit)
Top(limit) ==
    /\ \/ /\ storage = "json"
          /\ \E order \in Orders(DOMAIN data) :
                LET keys == JsonTopKeys(data, order, limit) IN
                  IF JsonTopRaises(keys)
                  THEN last' = Call("top", "fail") /\ board' = <<>>
                  ELSE last' = Call("top", "ok") /\ board' = JsonTopResult(data, keys)
       \/ /\ storage = "postgres"
          /\ \E o \in DbOutcomes, order \in Orders(DOMAIN table) :
                IF PgUsable /\ o = "ok"
                THEN last' = Call("top", "ok") /\ board' = PgTopResult(table, order, limit)
                ELSE last' = Call("top", "fail") /\ board' = <<>>
    /\ UNCHANGED <<storage, data, file, pool, schema, table, rpc, initFailed, imports,
                   faults, harness, retJ, retP, marked>>

\* `if not legacy_rows: ... return`: the command goes on to bulk_upsert when
\* the loader returned rows; the row count of the table is not looked at
ImportProceedsIfEmpty(t, rows) == rows # <<>> /\ PgCountRows(t) = 0
ImportProceeds(t, rows) == rows # <<>>

\* the command !importvouches (and /importvouches, which has the same body)
ImportVouchesCmd ==
    /\ IF storage = "postgres"
       THEN LET rows == LoadLegacy(file) IN
              IF ~ImportProceeds(table, rows)
              THEN last' = Call("importvouches", "none") /\ UNCHANGED table
              ELSE \E o \in DbOutcomes :
                     IF PgUsable /\ o = "ok"
                     THEN /\ table' = PgBulkUpsertTable(table, rows)
                          /\ last' = Call("importvouches", "ok")
                     ELSE /\ table' = table
                          /\ last' = Call("importvouches", "fail")
       ELSE last' = Call("importvouches", "noop") /\ UNCHANGED table
    /\ Returned(NoValue)
    /\ UNCHANGED <<storage, data, file, pool, schema, rpc, initFailed, imports,
                   faults, harness>>

Next ==
    \/ OnReadyInit
    \/ OnReadyCount
    \/ OnReadyImport
    \/ \E u \in Users : GetPoints(u)
    \/ \E u \in Users : GetStats(u)
    \/ \E u \in Users, d \in PointDeltas : AddPoints(u, d)
    \/ \E u \in Users, dp \in PointDeltas, dv \in VouchDeltas : AddVouch(u, dp, dv)
    \/ CountRows
    \/ \E rows \in BulkInputs : BulkUpsert(rows)

Spec == Init /\ [][Next]_vars

\* ------------------------------------------------ the two backends side by side
\* One JsonStorage and one PostgresStorage instance, both after a successful
\* init() on an absent file and an empty table, receive the same calls; every
\* write and every statement succeeds.
InitContract ==
    /\ storage = "both"
    /\ data = Empty
    /\ file = FileMissing
    /\ pool = "open"
    /\ schema = TRUE
    /\ table = Empty
    /\ rpc = "idle"
    /\ initFailed = FALSE
    /\ imports = 0
    /\ faults = 0
    /\ last = Call("start", "ok")
    /\ fold = [u \in Users |-> <<0, 0>>]
    /\ run = [u \in Users |-> [n |-> 0, baseJ |-> 0, baseP |-> 0]]
    /\ retJ = <<0, 0>>
    /\ retP = <<0, 0>>
    /\ board = <<>>
    /\ marked = FALSE
    /\ msg = NoMessage

NoRun == [n |-> 0, baseJ |-> 0, baseP |-> 0]

\* the run of AddPoints(u, +1) calls after one more call with this delta
RunAfter(u, delta) ==
    IF delta # 1 THEN NoRun
    ELSE IF run[u].n = 0
         THEN [n |-> 1, baseJ |-> JsonGetPoints(data, u), baseP |-> PgGetPoints(table, u)]
         ELSE [run[u] EXCEPT !.n = @ + 1]

BothGetPoints(u) ==
    /\ retJ' = <<JsonGetPoints(data, u), 0>>
    /\ retP' = <<PgGetPoints(table, u), 0>>
    /\ last' = Call("get_points", "ok")
    /\ UNCHANGED <<storage, data, file, pool, schema, table, rpc, initFailed, imports,
                   faults, fold, run, board, marked, msg>>

BothGetStats(u) ==
    /\ retJ' = JsonGetStats(data, u)
    /\ retP' = PgGetStats(table, u)
    /\ last' = Call("get_stats", "ok")
    /\ UNCHANGED <<storage, data, file, pool, schema, table, rpc, initFailed, imports,
                   faults, fold, run, board, marked, msg>>

BothAddPoints(u, delta) ==
    /\ Clamp(fold[u][1] + delta) <= MaxFold
    /\ data' = Put(data, Str(u), JsonAddPointsEntry(JsonEntryOrDefault(data, Str(u)), delta))
    /\ file' = JsonDumps(data')
    /\ table' = PgAddPointsTable(table, u, delta)
    /\ retJ' = <<JsonGetPoints(data', u), 0>>
    /\ retP' = <<PgGetPoints(table', u), 0>>
    /\ fold' = [fold EXCEPT ![u] = <<Clamp(fold[u][1] + delta), fold[u][2]>>]
    /\ run' = [run EXCEPT ![u] = RunAfter(u, delta)]
    /\ last' = Call("add_points", "ok")
    /\ UNCHANGED <<storage, pool, schema, rpc, initFailed, imports, faults, board,
                   marked, msg>>

BothAddVouch(u, dp, dv) ==
    /\ Clamp(fold[u][1] + dp) <= MaxFold
    /\ Clamp(fold[u][2] + dv) <= MaxVouches
    /\ data' = Put(data, Str(u), JsonAddVouchEntry(JsonEntryOrDefault(data, Str(u)), dp, dv))
    /\ file' = JsonDumps(data')
    /\ table' = PgAddVouchTable(table, u, dp, dv)
    /\ retJ' = JsonGetStats(data', u)
    /\ retP' = PgGetStats(table', u)
    /\ fold' = [fold EXCEPT ![u] = <<Clamp(fold[u][1] + dp), Clamp(fold[u][2] + dv)>>]
    /\ run' = [run EXCEPT ![u] = NoRun]
    /\ last' = Call("add_vouch", "ok")
    /\ UNCHANGED <<storage, pool, schema, rpc, initFailed, imports, faults, board,
                   marked, msg>>

NextContract ==
    \/ \E u \in Users : BothGetPoints(u)
    \/ \E u \in Users : BothGetStats(u)
    \/ \E u \in Users, d \in PointDeltas : BothAddPoints(u, d)
    \/ \E u \in Users, dp \in PointDeltas, dv \in VouchDeltas : BothAddVouch(u, dp, dv)

SpecContract == InitContract /\ [][NextContract]_vars

\* ------------------------------------------------- death inside a File call
\* where the process dies inside add_points / add_vouch: before write_text
\* opens the file, after open() truncated it and before the document is
\* complete on disk, or after the document is written
CrashPoints == {"before_write", "in_write", "after_write"}

\* The process dies at point `at` of a call that has set self._data to d; a
\* new process starts with an empty JsonStorage and on_ready runs init().
CrashRestart(d, at) ==
    /\ storage = "json"
    /\ file' = IF at = "before_write" THEN file
               ELSE IF at = "in_write" THEN FileCorrupt
               ELSE JsonDumps(d)
    /\ data' = JsonInitData(file')
    /\ initFailed' = FALSE
    /\ rpc' = "idle"
    /\ last' = Call("restart", at)
    /\ Returned(NoValue)
    /\ UNCHANGED <<storage, pool, schema, table, imports, faults, harness>>

CrashInAddPoints(u, delta) ==
    LET e == JsonAddPointsEntry(JsonEntryOrDefault(data, Str(u)), delta) IN
      /\ e.points <= MaxPoints
      /\ \E at \in CrashPoints : CrashRestart(Put(data, Str(u), e), at)

CrashInAddVouch(u, dp, dv) ==
    LET e == JsonAddVouchEntry(JsonEntryOrDefault(data, Str(u)), dp, dv) IN
      /\ e.points <= MaxPoints
      /\ e.total_vouches <= MaxVouches
      /\ \E at \in CrashPoints : CrashRestart(Put(data, Str(u), e), at)

\* a process configured without DATABASE_URL
InitCrash == Init /\ storage = "json"

NextCrash ==
    \/ OnReadyInit
    \/ \E u \in Users : GetStats(u)
    \/ \E u \in Users, d \in PointDeltas : AddPoints(u, d)
    \/ \E u \in Users, dp \in PointDeltas, dv \in VouchDeltas : AddVouch(u, dp, dv)
    \/ \E u \in Users, d \in PointDeltas : CrashInAddPoints(u, d)
    \/ \E u \in Users, dp \in PointDeltas, dv \in VouchDeltas : CrashInAddVouch(u, dp, dv)

SpecCrash == InitCrash /\ [][NextCrash]_vars

\* --------------------------------------------- after the first ready event
\* The process once on_ready has run to its end for the first time with a
\* successful storage.init(): JsonStorage holds what it read from the file,
\* PostgresStorage has its pool and the table exists.
InitReady ==
    /\ \/ /\ storage = "json"
          /\ file \in InitFiles
          /\ data = JsonInitData(file)
          /\ pool = "None"
          /\ schema = FALSE
       \/ /\ storage = "postgres"
          /\ file \in LegacyFiles
          /\ data = Empty
          /\ pool = "open"
          /\ schema = TRUE
    /\ table = Empty
    /\ rpc = "idle"
    /\ initFailed = FALSE
    /\ imports = 0
    /\ faults = 0
    /\ last = Call("init", "ok")
    /\ fold = [u \in Users |-> <<0, 0>>]
    /\ run = [u \in Users |-> [n |-> 0, baseJ |-> 0, baseP |-> 0]]
    /\ retJ = <<0, 0>>
    /\ retP = <<0, 0>>
    /\ board = <<>>
    /\ marked = FALSE
    /\ msg = NoMessage

SpecReady == InitReady /\ [][Next]_vars

\* ---------------------------------------------------------------- on_message
\* image_attachments and has_provider_tag, behind the two early tests
QualifiesWithoutProvider(m) == ~m.bot /\ m.inChannel /\ m.images > 0
Qualifies(m) == ~m.bot /\ m.inChannel /\ m.images > 0 /\ m.mentions = "provider"

\* what a storage call works on, and whether the call returned
Cur == [data |-> data, file |-> file, table |-> table, faults |-> faults, ok |-> TRUE]

\* the outcomes of storage.add_vouch(u, dp, dv) started in s
VouchCall(s, u, dp, dv) ==
    IF storage = "json"
    THEN LET d == Put(s.data, Str(u),
                      JsonAddVouchEntry(JsonEntryOrDefault(s.data, Str(u)), dp, dv))
         IN {[data |-> d, file |-> FileAfterWrite(w, d, s.file), table |-> s.table,
              faults |-> IF w = "ok" THEN s.faults ELSE s.faults + 1, ok |-> w = "ok"] :
                w \in {x \in WriteOutcomes : x # "ok" => s.faults < MaxWriteFaults}}
    ELSE {[data |-> s.data, file |-> s.file,
           table |-> IF PgUsable /\ o = "ok" THEN PgAddVouchTable(s.table, u, dp, dv)
                     ELSE s.table,
           faults |-> s.faults, ok |-> PgUsable /\ o = "ok"] : o \in DbOutcomes}

\* the outcomes of storage.add_points(u, delta) started in s
PointsCall(s, u, delta) ==
    IF storage = "json"
    THEN LET d == Put(s.data, Str(u),
                      JsonAddPointsEntry(JsonEntryOrDefault(s.data, Str(u)), delta))
         IN {[data |-> d, file |-> FileAfterWrite(w, d, s.file), table |-> s.table,
              faults |-> IF w = "ok" THEN s.faults ELSE s.faults + 1, ok |-> w = "ok"] :
                w \in {x \in WriteOutcomes : x # "ok" => s.faults < MaxWriteFaults}}
    ELSE {[data |-> s.data, file |-> s.file,
           table |-> IF PgUsable /\ o = "ok" THEN PgAddPointsTable(s.table, u, delta)
                     ELSE s.table,
           faults |-> s.faults, ok |-> PgUsable /\ o = "ok"] : o \in DbOutcomes}

\* the outcomes of importvouches_cmd started in s
ImportCall(s) ==
    IF storage = "postgres" /\ ImportProceeds(s.table, LoadLegacy(s.file))
    THEN {[data |-> s.data, file |-> s.file,
           table |-> IF PgUsable /\ o = "ok"
                     THEN PgBulkUpsertTable(s.table, LoadLegacy(s.file)) ELSE s.table,
           faults |-> s.faults, ok |-> PgUsable /\ o = "ok"] : o \in DbOutcomes}
    ELSE {s}

\* The block under `if image_attachments and has_provider_tag`: add_vouch,
\* then add_reaction inside the try when add_vouch returned (r1), then the
\* add_reaction after the try/except in either case (r2); a reaction that
\* fails is swallowed.
VouchBlock(s, m) ==
    IF Qualifies(m)
    THEN {[s |-> r, result |-> IF r.ok THEN "saved" ELSE "failed",
           marked |-> (r.ok /\ r1) \/ r2] :
             r \in VouchCall(s, m.author, POINTS_PER_PICTURE * m.images, 1),
             r1 \in BOOLEAN, r2 \in BOOLEAN}
    ELSE {[s |-> s, result |-> "ignored", marked |-> FALSE]}

\* bot.process_commands(message): the command runs when its check passes;
\* addvouch and removevouch return early when amount < 1
CommandOutcomes(s, c) ==
    IF c.name = "addvouch" /\ c.permitted /\ c.amount >= 1
    THEN VouchCall(s, c.member, c.amount, 1)
    ELSE IF c.name = "removevouch" /\ c.permitted /\ c.amount >= 1
    THEN PointsCall(s, c.member, 0 - c.amount)
    ELSE IF c.name = "importvouches" /\ c.permitted
    THEN ImportCall(s)
    ELSE {s}

\* the library dispatches a message event: on_message(m) is about to run
Dispatch(m) ==
    /\ ~msg.pending
    /\ msg' = [pending |-> TRUE, m |-> m]
    /\ UNCHANGED <<storage, data, file, pool, schema, table, rpc, initFailed, imports,
                   faults, last, fold, run, retJ, retP, board, marked>>

\* on_message(message), from the author.bot test to the end of
\* process_commands
OnMessage ==
    /\ msg.pending
    /\ msg' = NoMessage
    /\ \E v \in VouchBlock(Cur, msg.m) :
         \E c \in (IF msg.m.bot THEN {v.s} ELSE CommandOutcomes(v.s, msg.m.cmd)) :
            /\ \A k \in DOMAIN c.data :
                  c.data[k].points <= MaxScore /\ c.data[k].total_vouches <= MaxVouches
            /\ \A u \in DOMAIN c.table :
                  c.table[u].points <= MaxScore /\ c.table[u].total_vouches <= MaxVouches
            /\ data' = c.data
            /\ file' = c.file
            /\ table' = c.table
            /\ faults' = c.faults
            /\ marked' = v.marked
            /\ last' = Call("on_message", v.result)
    /\ retJ' = IF storage = "json" THEN NoValue ELSE retJ
    /\ retP' = IF storage = "postgres" THEN NoValue ELSE retP
    /\ board' = <<>>
    /\ UNCHANGED <<storage, pool, schema, rpc, initFailed, imports, fold, run>>

NextMessage ==
    \/ \E m \in Messages : Dispatch(m)
    \/ OnMessage

\* after the first ready event, next to an absent or a well-formed snapshot
InitMessage == InitReady /\ file \in LegacyFiles

SpecMessage == InitMessage /\ [][NextMessage]_vars

\* ------------------------------------------- snapshots, batches and leaderboard
\* The member values a snapshot holds under one key: both historical shapes,
\* an object with both points and score, an object with a member int()
\* rejects, and a value that is neither an integer nor an object.
MemberValues ==
    { JInt(2),
      JObj([points |-> JNum(1), total_vouches |-> JNum(1)]),
      JObj([score |-> JNum(2)]),
      JObj([points |-> JNum(1), score |-> JNum(2)]),
      JObj([total_vouches |-> JBad]),
      JOther }

ForeignValues == {JInt(2), JObj([points |-> JBad])}

\* the object snapshots over Keys
SnapshotObjects ==
    UNION { UNION { { [k \in ks |-> IF k = "x" THEN x ELSE IF k = "1" THEN a ELSE b]
                      : a \in MemberValues, b \in MemberValues \ {JInt(2)} }
                    : x \in ForeignValues }
            : ks \in SUBSET Keys }

SnapshotFiles ==
    {FileMissing, FileCorrupt, FileNonObject} \cup {FileObject(o) : o \in SnapshotObjects}

\* the batches a caller hands to bulk_upsert: none, two users, one user, and
\* the same user twice
BulkBatches ==
    { <<>>,
      <<<<1, 10, 2>>, <<2, 5, 1>>>>,
      <<<<2, 7, 0>>>>,
      <<<<1, 1, 1>>, <<1, 3, 0>>>> }

\* A process of either configuration after its storage object was built
\* (and, with DATABASE_URL set, after PostgresStorage.init succeeded), next
\* to any snapshot file.
InitSnapshot ==
    /\ file \in SnapshotFiles
    /\ \/ storage = "json" /\ pool = "None" /\ schema = FALSE
       \/ storage = "postgres" /\ pool = "open" /\ schema = TRUE
    /\ data = Empty
    /\ table = Empty
    /\ rpc = "idle"
    /\ initFailed = FALSE
    /\ imports = 0
    /\ faults = 0
    /\ last = Call("start", "ok")
    /\ fold = [u \in Users |-> <<0, 0>>]
    /\ run = [u \in Users |-> NoRun]
    /\ retJ = <<0, 0>>
    /\ retP = <<0, 0>>
    /\ board = <<>>
    /\ marked = FALSE
    /\ msg = NoMessage

NextSnapshot ==
    \/ storage = "json" /\ OnReadyInit
    \/ ImportVouchesCmd
    \/ \E rows \in BulkBatches : BulkUpsert(rows)
    \/ \E limit \in 0..MaxLimit : Top(limit)

SpecSnapshot == InitSnapshot /\ [][NextSnapshot]_vars

\* ------------------------------------------------------------------ claims
MutatingOps == {"add_points", "add_vouch", "bulk_upsert"}
LedgerOps == {"get_points", "get_stats", "add_points", "add_vouch", "count_rows", "bulk_upsert"}

\* C1: after any sequence of AddPoints and AddVouch calls on an empty ledger,
\* the counters of every user equal the floor-at-zero fold of the deltas
\* applied to that user, on the File backend and on the Relational backend.
C1_FoldOnBothBackends ==
    \A u \in Users :
        /\ JsonGetStats(data, u) = fold[u]
        /\ PgGetStats(table, u) = fold[u]

\* C2: the File backend and the Relational backend return the same value at
\* every call of a common sequence of GetPoints, GetStats, AddPoints, AddVouch.
C2_BackendsReturnSame == retJ = retP

\* C3: N AddPoints(u, +1) calls on the same user, each one indivisible and
\* taken in any order, leave points of u increased by exactly N, whether or
\* not u had an entry before the first of them.
C3_NoLostUpdate ==
    \A u \in Users :
        run[u].n > 0 =>
            /\ JsonGetPoints(data, u) = run[u].baseJ + run[u].n
            /\ PgGetPoints(table, u) = run[u].baseP + run[u].n

\* C4: every stored entry has points >= 0 and total_vouches >= 0 in every
\* state reachable by Init, AddPoints, AddVouch and BulkUpsert calls.
C4_CountersNonNegative ==
    /\ \A k \in DOMAIN data : data[k].points >= 0 /\ data[k].total_vouches >= 0
    /\ \A u \in DOMAIN table : table[u].points >= 0 /\ table[u].total_vouches >= 0

\* C5: a mutating call that reports failure leaves the counters every user
\* reads exactly as they were before the call.
C5_FailedCallLeavesNoTrace ==
    [][(last'.op \in MutatingOps /\ last'.result = "fail") =>
          \A u \in Users :
              Stats(storage', data', table', u) = Stats(storage, data, table, u)]_vars

\* C6: File backend: after an AddPoints or AddVouch call that returned
\* successfully, what Init would load from the snapshot is the in-memory
\* ledger, so every user reads the same counters after a crash and Init.
C6_SnapshotRestoresLedger ==
    (storage = "json" /\ last.op \in {"add_points", "add_vouch"} /\ last.result = "ok") =>
        /\ JsonInitData(file) = data
        /\ \A u \in Users : JsonGetStats(JsonInitData(file), u) = JsonGetStats(data, u)

C6_Witness ==
    /\ storage = "json"
    /\ last.op = "add_vouch"
    /\ last.result = "ok"
    /\ JsonGetStats(data, 1) = <<1, 1>>
    /\ JsonGetStats(data, 2) = <<0, 1>>
    /\ "x" \in DOMAIN data

\* C7: an AddVouch call, whether it returns or fails, leaves the counters of
\* its user either both as they were or both as the call computes them; no
\* state shows one counter updated and the other not.
C7_AddVouchIndivisible ==
    [][\A u \in Users, dp \in PointDeltas, dv \in VouchDeltas :
          (last'.op = "add_vouch" /\ AddVouch(u, dp, dv)) =>
              LET before == Stats(storage, data, table, u)
                  after == Stats(storage', data', table', u)
              IN \/ after = before
                 \/ after = <<Clamp(before[1] + dp), Clamp(before[2] + dv)>>]_vars

C7_Witness ==
    /\ storage = "json"
    /\ last.op = "add_vouch"
    /\ last.result = "fail"
    /\ JsonGetStats(data, 1) = <<1, 1>>
    /\ JsonGetStats(JsonInitData(file), 1) = <<0, 0>>

\* C8: AddPoints(u, delta) leaves total_vouches of every user and both
\* counters of every user other than u unchanged.
C8_AddPointsFrame ==
    [][\A u \in Users, d \in PointDeltas :
          (last'.op = "add_points" /\ AddPoints(u, d)) =>
              \A w \in Users :
                  /\ Stats(storage', data', table', w)[2] = Stats(storage, data, table, w)[2]
                  /\ w # u => Stats(storage', data', table', w) = Stats(storage, data, table, w)]_vars

C8_Witness ==
    /\ last.op = "add_points"
    /\ last.result = "ok"
    /\ retJ = <<0, 0>>
    /\ retP = <<0, 0>>
    /\ board = <<>>
    /\ Stats(storage, data, table, 1) = <<0, 1>>
    /\ Stats(storage, data, table, 2) = <<1, 1>>

\* C9: Relational backend: while the latest Init has failed, every ledger
\* call fails instead of returning a value.
C9_CallsFailAfterInitFailure ==
    (storage = "postgres" /\ initFailed /\ last.op \in LedgerOps) => last.result = "fail"

\* C10: the startup import commits only into a table without rows: it never
\* overwrites a row that exists, and it commits at most once.
C10_StartupImportIntoEmptyTable ==
    [][(last'.op = "ready_import" /\ last'.result = "ok") =>
          /\ storage = "postgres"
          /\ PgCountRows(table) = 0
          /\ \A u \in DOMAIN table : table'[u] = table[u]
          /\ imports' <= 1]_vars

\* C11: the migration loader skips an invalid row on its own (a key int()
\* rejects, or an entry with a member that cannot be converted to an
\* integer): once the import command has run on the Relational backend,
\* every valid row of the snapshot is in the table with its normalised
\* counters, whatever the other rows of the snapshot are.
C11_InvalidRowSkippedAlone ==
    (storage = "postgres" /\ last.op = "importvouches" /\ last.result \in {"ok", "none"}
        /\ file.kind = "object")
    => \A k \in DOMAIN file.obj :
          (IntParses(k) /\ file.obj[k].t \in {"int", "obj"} /\ ~EntryRaises(file.obj[k]))
          => /\ IntOf(k) \in DOMAIN table
             /\ table[IntOf(k)] = Normalize(file.obj[k])

\* C12: running the migration twice with the same legacy file against the
\* Relational backend leaves the table the first run produced: an import
\* that commits right after an import that committed changes no row.
C12_ImportTwiceIsImportOnce ==
    [][(last.op = "importvouches" /\ last.result = "ok"
          /\ ImportVouchesCmd /\ last'.result = "ok")
       => table' = table]_vars

\* an import committed over rows a batch had written: user 1 keeps the
\* batch's counters, user 2 holds the file's instead of the batch's
C12_Witness ==
    /\ storage = "postgres"
    /\ last = Call("importvouches", "ok")
    /\ file = FileObject(Put(Empty, "2", JObj([score |-> JNum(2)])))
    /\ table = Put(Put(Empty, 1, Entry(10, 2)), 2, Entry(2, 0))

\* C13: BulkUpsert(rows) is all-or-nothing and overwriting.  After a call
\* that commits, every listed user holds the counters of its (last) listing
\* whatever it held before, and every other user is as before; after a call
\* that fails, and after a call with no rows, the table is as before.
\* BulkUpsert([(1,10,2),(2,5,1)]) on an empty table followed by Top(2)
\* returns [(1,10),(2,5)].
C13_BulkUpsertAllOrNothing ==
    [][/\ \A rows \in BulkBatches :
            (last'.op = "bulk_upsert" /\ BulkUpsert(rows))
            => /\ rows = <<>> => table' = table
               /\ last'.result = "fail" => table' = table
               /\ last'.result = "ok" =>
                    \A u \in Users :
                       LET listed == {i \in 1..Len(rows) : rows[i][1] = u} IN
                         IF listed = {}
                         THEN PgGetStats(table', u) = PgGetStats(table, u)
                              /\ (u \in DOMAIN table' <=> u \in DOMAIN table)
                         ELSE LET i == CHOOSE j \in listed : \A k \in listed : k <= j IN
                                u \in DOMAIN table'
                                /\ table'[u] = Entry(rows[i][2], rows[i][3])
       /\ (table = Put(Put(Empty, 1, Entry(10, 2)), 2, Entry(5, 1))
             /\ Top(2) /\ last'.result = "ok")
          => board' = <<<<1, 10>>, <<2, 5>>>>
      ]_vars

\* a batch naming only user 2 committed over the rows of an earlier batch
C13_Witness ==
    /\ last = Call("bulk_upsert", "ok")
    /\ table = Put(Put(Empty, 1, Entry(10, 2)), 2, Entry(7, 0))

\* C14: Top(limit) returns at most limit entries, sorted by points
\* descending, each an existing (user_id, points) pair of the ledger;
\* Top(0) returns the empty sequence and Top(N) on a ledger with at most N
\* entries returns all of them.  On the File backend Top(0) always returns,
\* and so does every Top on a ledger whose keys are user ids.
C14_TopSortedPrefix ==
    [][\A limit \in 0..MaxLimit :
          (last'.op = "top" /\ Top(limit))
          => LET entries == IF storage = "json"
                            THEN {<<IntOf(k), data[k].points>> :
                                     k \in {j \in DOMAIN data : IntParses(j)}}
                            ELSE {<<u, table[u].points>> : u \in DOMAIN table}
                 size == IF storage = "json" THEN Cardinality(DOMAIN data)
                         ELSE Cardinality(DOMAIN table)
             IN /\ (storage = "json" /\ (limit = 0 \/ \A k \in DOMAIN data : IntParses(k)))
                   => last'.result = "ok"
                /\ last'.result = "ok" =>
                     /\ Len(board') <= limit
                     /\ \A i \in 1..Len(board') : board'[i] \in entries
                     /\ \A i, j \in 1..Len(board') : i < j => board'[i][2] >= board'[j][2]
                     /\ \A i, j \in 1..Len(board') : i # j => board'[i][1] # board'[j][1]
                     /\ limit = 0 => board' = <<>>
                     /\ size <= limit => Len(board') = size
      ]_vars

\* Top(1) on a File ledger of three entries returned the one with most points
C14_Witness ==
    /\ storage = "json"
    /\ last = Call("top", "ok")
    /\ Cardinality(DOMAIN data) = 3
    /\ board = <<<<2, 2>>>>
    /\ JsonGetPoints(data, 1) = 1

\* C15: loading a snapshot whose members have the two historical shapes (a
\* bare integer, or an object with integer members) gives every member the
\* same entry in JsonStorage.init and in the migration loader: a bare
\* integer n gives (n, 0); an object gives points = its points member, else
\* its score member, else 0, and total_vouches = its total_vouches member,
\* else 0.  The loader does so for every key that is a user id, and returns
\* rows whenever there is such a key.
C15_BothShapesNormalized ==
    (file.kind = "object"
       /\ \A k \in DOMAIN file.obj :
             \/ file.obj[k].t = "int"
             \/ file.obj[k].t = "obj" /\ \A m \in DOMAIN file.obj[k].o : file.obj[k].o[m].ok)
    => /\ \A k \in DOMAIN file.obj :
            LET v == file.obj[k]
                expected ==
                    IF v.t = "int" THEN Entry(v.n, 0)
                    ELSE Entry(IF "points" \in DOMAIN v.o THEN v.o["points"].n
                               ELSE IF "score" \in DOMAIN v.o THEN v.o["score"].n
                               ELSE 0,
                               IF "total_vouches" \in DOMAIN v.o
                               THEN v.o["total_vouches"].n ELSE 0)
            IN /\ (storage = "json" /\ last = Call("init", "ok"))
                  => k \in DOMAIN data /\ data[k] = expected
               /\ (storage = "postgres" /\ last = Call("importvouches", "ok") /\ IntParses(k))
                  => IntOf(k) \in DOMAIN table /\ table[IntOf(k)] = expected
       /\ (storage = "postgres" /\ last.op = "importvouches"
             /\ \E k \in DOMAIN file.obj : IntParses(k))
          => last.result # "none"

\* init() loaded a bare integer, an object with points and score, and an
\* object with score only
C15_Witness ==
    /\ storage = "json"
    /\ last = Call("init", "ok")
    /\ file = FileObject(Put(Put(Put(Empty, "x", JInt(2)),
                                 "1", JObj([points |-> JNum(1), score |-> JNum(2)])),
                             "2", JObj([score |-> JNum(2)])))
    /\ data = Put(Put(Put(Empty, "x", Entry(2, 0)), "1", Entry(1, 0)), "2", Entry(2, 0))

\* C16: JsonStorage.init never raises to its caller: with a missing file, an
\* unparseable file, or a file whose top-level value is not an object it
\* completes and leaves an empty ledger: GetStats returns (0, 0) for every
\* user and Top returns the empty sequence.
C16_InitNeverRaises ==
    (storage = "json" /\ file.kind \in {"missing", "corrupt", "nonobject"})
    => /\ last.op = "init" =>
            /\ last.result = "ok"
            /\ ~initFailed
            /\ \A u \in Users : JsonGetStats(data, u) = <<0, 0>>
            /\ \A limit \in 0..MaxLimit, order \in Orders(DOMAIN data) :
                  /\ ~JsonTopRaises(JsonTopKeys(data, order, limit))
                  /\ JsonTopResult(data, JsonTopKeys(data, order, limit)) = <<>>
       /\ last.op = "top" => last.result = "ok" /\ board = <<>>

\* init() has run on a file that holds a JSON value other than an object
C16_Witness ==
    /\ storage = "json"
    /\ file = FileNonObject
    /\ last = Call("init", "ok")
    /\ data = Empty

\* C17: an entry is never deleted: no AddPoints, AddVouch or BulkUpsert call,
\* failed or not, takes a user id out of the ledger, and an AddPoints debit
\* that brings the points of an existing entry to zero leaves the entry in
\* place with points 0 and its total_vouches as before.
C17_EntryNeverDeleted ==
    [][/\ last'.op \in MutatingOps
          => /\ DOMAIN data \subseteq DOMAIN data'
             /\ DOMAIN table \subseteq DOMAIN table'
       /\ \A u \in Users, d \in PointDeltas :
             (last'.op = "add_points" /\ last'.result = "ok" /\ AddPoints(u, d)
                /\ (IF storage = "json" THEN Str(u) \in DOMAIN data ELSE u \in DOMAIN table)
                /\ Clamp(Stats(storage, data, table, u)[1] + d) = 0)
             => /\ IF storage = "json" THEN Str(u) \in DOMAIN data' ELSE u \in DOMAIN table'
                /\ Stats(storage, data', table', u) = <<0, Stats(storage, data, table, u)[2]>>
      ]_vars

\* a debit on the Relational backend left the row of user 1 with no points
\* and its vouch count
C17_Witness ==
    /\ storage = "postgres"
    /\ last = Call("add_points", "ok")
    /\ 1 \in DOMAIN table
    /\ table[1] = Entry(0, 1)
    /\ retP = <<0, 0>>

\* C18: GetPoints(u) and GetStats(u) on a user with no entry return 0 and
\* (0, 0): the File backend always returns, the Relational backend returns
\* unless the connection or the statement fails.  Neither call creates an
\* entry or changes a stored counter or the snapshot file.
C18_ReadsOfAbsentUser ==
    [][\A u \in Users :
          (/\ \/ last'.op = "get_points" /\ GetPoints(u)
              \/ last'.op = "get_stats" /\ GetStats(u)
           /\ IF storage = "json" THEN Str(u) \notin DOMAIN data ELSE u \notin DOMAIN table)
          => /\ storage = "json" => last'.result = "ok"
             /\ last'.result = "ok"
                => (IF storage = "json" THEN retJ' ELSE retP') = <<0, 0>>
             /\ data' = data
             /\ table' = table
             /\ file' = file
      ]_vars

\* GetStats of user 1 returned (0, 0) from a File ledger that holds user 2 only
C18_Witness ==
    /\ storage = "json"
    /\ last = Call("get_stats", "ok")
    /\ data = Put(Empty, "2", Entry(1, 1))
    /\ retJ = <<0, 0>>

\* C19: the import command, with the Relational backend active and a legacy
\* file that yields at least one row, calls BulkUpsert with those rows
\* whatever the table holds: when the call commits every row of the file is
\* in the table and every other user is as before, when it fails the table
\* is as before.  With the File backend active, or a legacy file that is
\* absent or yields no rows, the command changes nothing.
C19_ImportCommandBypassesGuard ==
    [][(last'.op = "importvouches" /\ ImportVouchesCmd)
       => LET rows == LoadLegacy(file) IN
            IF storage = "postgres" /\ rows # <<>>
            THEN /\ last'.result \in {"ok", "fail"}
                 /\ last'.result = "fail" => table' = table
                 /\ last'.result = "ok" =>
                      /\ \A i \in 1..Len(rows) :
                            /\ rows[i][1] \in DOMAIN table'
                            /\ table'[rows[i][1]] = Entry(rows[i][2], rows[i][3])
                      /\ \A u \in Users :
                            (\A i \in 1..Len(rows) : rows[i][1] # u)
                            => /\ PgGetStats(table', u) = PgGetStats(table, u)
                               /\ (u \in DOMAIN table' <=> u \in DOMAIN table)
            ELSE /\ last'.result \in {"none", "noop"}
                 /\ table' = table
                 /\ data' = data
                 /\ file' = file
      ]_vars

\* the command committed the file's row of user 1 into a table that held a
\* row of user 2
C19_Witness ==
    /\ storage = "postgres"
    /\ last = Call("importvouches", "ok")
    /\ file = FileObject(Put(Empty, "1", JInt(2)))
    /\ table = Put(Put(Empty, 1, Entry(2, 0)), 2, Entry(7, 0))

\* C20: on the File backend, when the process dies at any point inside
\* add_points or add_vouch, also part-way through rewriting the snapshot,
\* and the ledger in memory was the one the snapshot holds, the ledger that
\* init() loads after the restart is the ledger before the call or the
\* ledger after it, and every user the call did not touch keeps its entry.
C20_CrashKeepsBeforeOrAfter ==
    [][/\ \A u \in Users, d \in PointDeltas :
            (last'.op = "restart" /\ data = JsonInitData(file) /\ CrashInAddPoints(u, d))
            => /\ data' \in {data, Put(data, Str(u),
                                 JsonAddPointsEntry(JsonEntryOrDefault(data, Str(u)), d))}
               /\ \A k \in (DOMAIN data) \ {Str(u)} : k \in DOMAIN data' /\ data'[k] = data[k]
       /\ \A u \in Users, dp \in PointDeltas, dv \in VouchDeltas :
            (last'.op = "restart" /\ data = JsonInitData(file) /\ CrashInAddVouch(u, dp, dv))
            => /\ data' \in {data, Put(data, Str(u),
                                 JsonAddVouchEntry(JsonEntryOrDefault(data, Str(u)), dp, dv))}
               /\ \A k \in (DOMAIN data) \ {Str(u)} : k \in DOMAIN data' /\ data'[k] = data[k]
      ]_vars

\* C21: running storage.init() again, as on_ready does on every ready event,
\* after any sequence of ledger calls leaves GetStats(u) as it was for every
\* user u, on the File backend and on the Relational backend.
C21_ReinitKeepsStats ==
    [][(last'.op = "init" /\ OnReadyInit)
       => \A u \in Users :
             Stats(storage, data', table', u) = Stats(storage, data, table, u)]_vars

\* C22: on_message changes the ledger only for a message whose author is not
\* a bot, that is in the vouch channel, carries at least one image and
\* mentions at least one member holding the Provider role; for such a
\* message it issues exactly one AddVouch(author, POINTS_PER_PICTURE *
\* number of images, 1), and for every other message the ledger is unchanged.
C22_OnlyVouchMessagesWrite ==
    [][(msg.pending /\ ~msg'.pending)
       => LET m == msg.m IN
            IF ~m.bot /\ m.inChannel /\ m.images >= 1 /\ m.mentions = "provider"
            THEN IF storage = "json"
                 THEN data' = Put(data, Str(m.author),
                                  JsonAddVouchEntry(JsonEntryOrDefault(data, Str(m.author)),
                                                    POINTS_PER_PICTURE * m.images, 1))
                 ELSE table' \in {table, PgAddVouchTable(table, m.author,
                                                         POINTS_PER_PICTURE * m.images, 1)}
            ELSE data' = data /\ table' = table /\ file' = file
      ]_vars

\* C22, amended: of the messages that carry none of the commands addvouch,
\* removevouch and importvouches, on_message changes the ledger only for
\* one whose author is not a bot, that is in the vouch channel, carries at
\* least one image and mentions a Provider; for such a message it issues
\* exactly one AddVouch(author, POINTS_PER_PICTURE * number of images, 1),
\* and for every other one the ledger is unchanged.
C22_OnlyVouchMessagesWriteApartFromCommands ==
    [][(msg.pending /\ ~msg'.pending
          /\ msg.m.cmd.name \notin {"addvouch", "removevouch", "importvouches"})
       => LET m == msg.m IN
            IF ~m.bot /\ m.inChannel /\ m.images >= 1 /\ m.mentions = "provider"
            THEN IF storage = "json"
                 THEN data' = Put(data, Str(m.author),
                                  JsonAddVouchEntry(JsonEntryOrDefault(data, Str(m.author)),
                                                    POINTS_PER_PICTURE * m.images, 1))
                 ELSE table' \in {table, PgAddVouchTable(table, m.author,
                                                         POINTS_PER_PICTURE * m.images, 1)}
            ELSE data' = data /\ table' = table /\ file' = file
      ]_vars

\* a message with two images credited user 2 on the File backend
C22_Witness ==
    /\ storage = "json"
    /\ last = Call("on_message", "saved")
    /\ marked
    /\ JsonGetStats(data, 2) = <<2, 1>>
    /\ JsonGetStats(JsonInitData(file), 2) = <<2, 1>>


\* C23: on_message adds the check-mark reaction to a message only if the
\* add_vouch call for that message returned; a message whose credit failed to
\* be saved is never marked as confirmed.
C23_MarkedOnlyIfSaved ==
    [][(msg.pending /\ ~msg'.pending /\ marked') => last'.result = "saved"]_vars

\* C24: File backend: after init on any snapshot whose top-level JSON value is
\* an object, whatever its keys are, top(limit) returns a sequence of
\* (integer user id, points) pairs and does not raise.
C24_TopNeverRaisesAfterInit ==
    [][(storage = "json" /\ file.kind = "object" /\ data = JsonInitData(file)
        /\ last.op \in {"init", "top"} /\ last'.op = "top")
       => (last'.result = "ok"
           /\ \A i \in 1..Len(board') : board'[i][1] \in Int /\ board'[i][2] \in Int)]_vars

====
